---- MODULE Spec2Model ----
(***************************************************************************)
(* A state-machine model of the data-gen orchestrator, src/run.py main():  *)
(* argument parsing, configuration loading and resolution, asset loading,  *)
(* text sampling, job building and the sequential / pooled execution of    *)
(* the render jobs.  One action per step of main(); the pure helpers of    *)
(* run.py are operators.                                                   *)
(*                                                                         *)
(* Conventions.  A Python value that may be None is an option: None is the *)
(* empty tuple and a value v is <<v>>.  Text whose characters the code     *)
(* inspects (a colour, a corpus line) is a tuple of one-character strings. *)
(* A path under fonts/ is a tuple of its components.                       *)
(***************************************************************************)
EXTENDS Integers, Sequences, FiniteSets, TLC

VARIABLES
    flags,          \* the store_true flags of parse_args (immutable)
    cfg_exists,     \* does the --cfg file exist
    base,           \* the YAML document of the --cfg file
    fs_corpus,      \* path -> option of the raw lines of that file
    fs_fonts,       \* name under fonts/ -> node (missing, file or directory)
    failing,        \* the job indexes for which the renderer raises
    cli,            \* the namespace as parse_args returned it (immutable)
    pc,             \* position of main(): the step to run, or the one it ended in
    args,           \* the argparse namespace: name -> option
    cfg,            \* the loaded configuration: section -> key -> value
    exit_code,      \* option: the exit status once the process has ended
    corpus_list,    \* result of load_corpus
    font_paths,     \* result of load_fonts
    strings,        \* args.strings
    font_colors,    \* the palette built in step 11
    mkdir_done,     \* has the output directory been created
    image_params,   \* the job tuples built in step 13
    rendered,       \* job index -> number of renderer calls made for it
    progress,       \* number of items the progress bar has counted
    seq_i,          \* sequential mode: next position of the for loop
    pool,           \* "none", "open" or "terminated"
    next_task,      \* pooled mode: next position handed to a worker
    running,        \* pooled mode: positions being rendered by a worker
    outq,           \* pooled mode: finished, not yet collected results
    interrupted,    \* has KeyboardInterrupt been raised in the engine
    aug_pc,         \* apply_augmentations: "idle", "loop" or "returned"
    aug_i,          \* apply_augmentations: position of the for loop in AUGS
    aug_img,        \* apply_augmentations: the local variable img
    aug_trace,      \* apply_augmentations: the stage calls made, in order
    loggers,        \* the logging registry: name -> level and handlers
    log_calls       \* the calls of setup_logger made, in order

vars == <<flags, cfg_exists, base, fs_corpus, fs_fonts, failing, cli, pc, args, cfg,
          exit_code, corpus_list, font_paths, strings, font_colors, mkdir_done,
          image_params, rendered, progress, seq_i, pool, next_task, running, outq,
          interrupted, aug_pc, aug_i, aug_img, aug_trace, loggers, log_calls>>

aug_vars == <<aug_pc, aug_i, aug_img, aug_trace>>

log_vars == <<loggers, log_calls>>

\* what no step of main() writes: the interrupt, the augmentation call and
\* the logging registry
idle_vars == <<interrupted, aug_vars, log_vars>>

inputs == <<flags, cfg_exists, base, fs_corpus, fs_fonts, failing, cli>>

----------------------------------------------------------------------------
(* Options and text helpers *)

None == <<>>
Some(v) == <<v>>
Min(a, b) == IF a <= b THEN a ELSE b

Range(s) == {s[i] : i \in 1..Len(s)}

RECURSIVE LStrip(_, _)
LStrip(s, chars) ==
    IF s # <<>> /\ Head(s) \in chars THEN LStrip(Tail(s), chars) ELSE s

RECURSIVE RStrip(_, _)
RStrip(s, chars) ==
    IF s # <<>> /\ s[Len(s)] \in chars
    THEN RStrip(SubSeq(s, 1, Len(s) - 1), chars) ELSE s

\* str.strip(chars): drop every leading and trailing character of chars
Strip(s, chars) == RStrip(LStrip(s, chars), chars)

\* str.split(sep): the fields between the separators (always at least one)
RECURSIVE Split(_, _)
Split(s, sep) ==
    IF \A i \in 1..Len(s) : s[i] # sep THEN <<s>>
    ELSE LET i == CHOOSE j \in 1..Len(s) :
                      s[j] = sep /\ \A k \in 1..(j - 1) : s[k] # sep
         IN  <<SubSeq(s, 1, i - 1)>> \o Split(SubSeq(s, i + 1, Len(s)), sep)

Digits == <<"0", "1", "2", "3", "4", "5", "6", "7", "8", "9">>
DigitVal(c) == (CHOOSE d \in 1..Len(Digits) : Digits[d] = c) - 1

\* int(text) on an unsigned decimal field: None stands for ValueError
RECURSIVE ToInt(_)
ToInt(s) ==
    IF s = <<>> \/ \E i \in 1..Len(s) : s[i] \notin Range(Digits) THEN None
    ELSE IF Len(s) = 1 THEN Some(DigitVal(s[1]))
    ELSE Some(ToInt(SubSeq(s, 1, Len(s) - 1))[1] * Len(Digits) + DigitVal(s[Len(s)]))

----------------------------------------------------------------------------
(* The configuration document and the names of run.py *)

\* the document order of the five sections
SectionOrder == <<"FILE_SETTINGS", "TEXT_SETTINGS", "IMAGE_FORMAT_SETTINGS",
                  "DISTORTION_SETTINGS", "OTHER_SETTINGS">>

override_mapping ==
    [output_dir  |-> <<"FILE_SETTINGS", "OUTPUT_DIR">>,
     language    |-> <<"TEXT_SETTINGS", "LANGUAGE">>,
     corpus      |-> <<"TEXT_SETTINGS", "CORPUS">>,
     count       |-> <<"OTHER_SETTINGS", "COUNT">>,
     fonts       |-> <<"FILE_SETTINGS", "FONTS">>,
     size        |-> <<"TEXT_SETTINGS", "SIZE">>,
     color       |-> <<"TEXT_SETTINGS", "COLOR">>,
     width       |-> <<"IMAGE_FORMAT_SETTINGS", "WIDTH">>,
     height      |-> <<"TEXT_SETTINGS", "HEIGHT">>,
     extension   |-> <<"FILE_SETTINGS", "EXTENSION">>,
     margins     |-> <<"IMAGE_FORMAT_SETTINGS", "MARGINS">>,
     skew_angle  |-> <<"DISTORTION_SETTINGS", "SKEW_ANGLE">>,
     num_workers |-> <<"OTHER_SETTINGS", "NUM_WORKERS">>]

OverrideKeys == DOMAIN override_mapping

\* str.lower() on the option keys of the document
Lower ==
    [OUTPUT_DIR |-> "output_dir", EXTENSION |-> "extension",
     NAME_FORMAT |-> "name_format", FONTS |-> "fonts",
     LANGUAGE |-> "language", CORPUS |-> "corpus",
     CORPUS_TYPE |-> "corpus_type", SIZE |-> "size", COLOR |-> "color",
     STROKE_WIDTH |-> "stroke_width", STROKE_FILL |-> "stroke_fill",
     HEIGHT |-> "height", LENGTH |-> "length", WIDTH |-> "width",
     ORIENTATION |-> "orientation", SPACE_WIDTH |-> "space_width",
     MARGINS |-> "margins", FIT |-> "fit", SKEW_ANGLE |-> "skew_angle",
     RANDOM_SKEW |-> "random_skew", COUNT |-> "count",
     NUM_WORKERS |-> "num_workers", RANDOM |-> "random",
     INCLUDE_LETTERS |-> "include_letters",
     INCLUDE_NUMBERS |-> "include_numbers",
     INCLUDE_SYMBOLS |-> "include_symbols"]

\* every attribute the namespace can carry
ArgNames == OverrideKeys \cup {Lower[k] : k \in DOMAIN Lower}

BlackText == <<"(", "0", ",", "0", ",", "0", ")">>

\* the sample document of setup.py, completed with the options main() reads
\* and the sample leaves out (COUNT, LENGTH, RANDOM, INCLUDE_*); the item
\* count, the worker count and the strategy tag are parameters
SampleConfig(count, workers, ctype) ==
    [FILE_SETTINGS |->
        [OUTPUT_DIR |-> "output/images", EXTENSION |-> "jpg",
         NAME_FORMAT |-> 2, FONTS |-> "ch"],
     TEXT_SETTINGS |->
        [LANGUAGE |-> "ch", CORPUS |-> "texts/sample_chinese.txt",
         CORPUS_TYPE |-> ctype, SIZE |-> 32, COLOR |-> BlackText,
         STROKE_WIDTH |-> 0, STROKE_FILL |-> BlackText, HEIGHT |-> 0,
         LENGTH |-> 1, RANDOM |-> FALSE, INCLUDE_LETTERS |-> TRUE,
         INCLUDE_NUMBERS |-> FALSE, INCLUDE_SYMBOLS |-> FALSE],
     IMAGE_FORMAT_SETTINGS |->
        [WIDTH |-> 0, ORIENTATION |-> 0, SPACE_WIDTH |-> 1,
         MARGINS |-> "5,4,5,4", FIT |-> FALSE],
     DISTORTION_SETTINGS |-> [SKEW_ANGLE |-> 5, RANDOM_SKEW |-> TRUE],
     OTHER_SETTINGS |-> [COUNT |-> count, NUM_WORKERS |-> workers]]

----------------------------------------------------------------------------
(* Config resolution: run.py steps 2 to 7 *)

QuickCount == 100
QuickWorkers == 4
SampleChinese == "texts/sample_chinese.txt"
SampleEnglish == "texts/sample_english.txt"

\* apply_quick_start_settings: ok = FALSE stands for the TypeError of
\* min(4, None); hasattr(args, 'num_workers') is true of every parsed namespace
apply_quick_start_settings(a, fsc) ==
    LET a1 == [a EXCEPT !.count = Some(QuickCount)]
        a2 == IF a.num_workers = None THEN a1
              ELSE [a1 EXCEPT !.num_workers = Some(Min(QuickWorkers, a.num_workers[1]))]
        a3 == IF fsc[SampleChinese] # None
              THEN [a2 EXCEPT !.corpus = Some(SampleChinese)]
              ELSE IF fsc[SampleEnglish] # None
              THEN [a2 EXCEPT !.corpus = Some(SampleEnglish),
                              !.language = Some("en"), !.fonts = Some("en")]
              ELSE a2
    IN  [ok |-> a.num_workers # None, args |-> a3]

\* the override keys whose value is written into section s
OverridesInto(a, s) ==
    {n \in OverrideKeys : a[n] # None /\ override_mapping[n][1] = s}

\* the for loop of apply_command_line_overrides: setattr(section, key, value)
ApplyMapping(a, c) ==
    [s \in DOMAIN c |->
        LET ns == OverridesInto(a, s)
            ks == {override_mapping[n][2] : n \in ns}
        IN  [k \in (DOMAIN c[s]) \cup ks |->
                IF k \in ks
                THEN a[CHOOSE n \in ns : override_mapping[n][2] = k][1]
                ELSE c[s][k]]]

\* no_skew that flips RANDOM_SKEW where the code switches it off
ApplyNoSkewToggle(no_skew, c) ==
    IF no_skew
    THEN [c EXCEPT !.DISTORTION_SETTINGS =
            [k \in (DOMAIN @) \cup {"SKEW_ANGLE", "RANDOM_SKEW"} |->
                IF k = "SKEW_ANGLE" THEN 0
                ELSE IF k = "RANDOM_SKEW"
                THEN (IF k \in DOMAIN @ THEN ~@[k] ELSE FALSE)
                ELSE @[k]]]
    ELSE c

\* the special handling of no_skew
ApplyNoSkew(no_skew, c) ==
    IF no_skew
    THEN [c EXCEPT !.DISTORTION_SETTINGS =
            [k \in (DOMAIN @) \cup {"SKEW_ANGLE", "RANDOM_SKEW"} |->
                IF k = "SKEW_ANGLE" THEN 0
                ELSE IF k = "RANDOM_SKEW" THEN FALSE ELSE @[k]]]
    ELSE c

\* the colour conversion: a non-empty colour not starting with "(" is wrapped
NeedsWrap(a) ==
    /\ a.color # None
    /\ a.color[1] # <<>>
    /\ Head(a.color[1]) # "("

ApplyColor(a, c) ==
    IF NeedsWrap(a)
    THEN [c EXCEPT !.TEXT_SETTINGS =
            [k \in (DOMAIN @) \cup {"COLOR"} |->
                IF k = "COLOR" THEN <<"(">> \o a.color[1] \o <<")">> ELSE @[k]]]
    ELSE c

\* apply_command_line_overrides: ok = FALSE stands for the AttributeError of
\* getattr(cfg, section_name) on a section the document does not have
apply_command_line_overrides(a, no_skew, c) ==
    LET ok == /\ \A n \in OverrideKeys :
                    a[n] # None => override_mapping[n][1] \in DOMAIN c
              /\ no_skew => "DISTORTION_SETTINGS" \in DOMAIN c
    IN  [ok |-> ok,
         cfg |-> IF ok THEN ApplyColor(a, ApplyNoSkew(no_skew, ApplyMapping(a, c)))
                 ELSE c]

\* FlattenSection without the test for None: the section's value always wins
FlattenSectionOverwrite(a, sec) ==
    [n \in DOMAIN a |->
        IF \E k \in DOMAIN sec : Lower[k] = n
        THEN Some(sec[CHOOSE k \in DOMAIN sec : Lower[k] = n])
        ELSE a[n]]

\* one section of step 5: an attribute that is missing or None takes the
\* section's value
FlattenSection(a, sec) ==
    [n \in DOMAIN a |->
        IF a[n] = None /\ \E k \in DOMAIN sec : Lower[k] = n
        THEN Some(sec[CHOOSE k \in DOMAIN sec : Lower[k] = n])
        ELSE a[n]]

\* the top-level keys a document may have, in document order: the five
\* sections, then a mapping and a scalar that are no section
DocOrder == SectionOrder \o <<"EXTRA_SETTINGS", "VERSION">>

\* the top-level keys whose value is a scalar (held as a 1-tuple): it has no
\* __dict__, so reading it as a section raises AttributeError
ScalarKeys == {"VERSION"}

\* the loop of step 5 from top-level key i on; it stops at a scalar
RECURSIVE FlattenFrom(_, _, _)
FlattenFrom(a, c, i) ==
    IF i > Len(DocOrder) THEN a
    ELSE IF DocOrder[i] \notin DOMAIN c THEN FlattenFrom(a, c, i + 1)
    ELSE IF DocOrder[i] \in ScalarKeys THEN a
    ELSE FlattenFrom(FlattenSection(a, c[DocOrder[i]]), c, i + 1)

\* step 5: the document is flattened into the namespace, top-level key by
\* top-level key
Flatten(a, c) == FlattenFrom(a, c, 1)

\* step 5 runs to its end
Flattens(c) == (DOMAIN c) \cap ScalarKeys = {}

\* steps 3 to 5 of main() as one function of the namespace, the flags and
\* the configuration: ok = FALSE stands for an exception in step 3 or 4
resolve(a, f, c, fsc) ==
    LET q == IF f.quick_start THEN apply_quick_start_settings(a, fsc)
             ELSE [ok |-> TRUE, args |-> a]
        o == apply_command_line_overrides(q.args, f.no_skew, c)
    IN  [ok |-> q.ok /\ o.ok /\ Flattens(o.cfg),
         args |-> Flatten(q.args, o.cfg), cfg |-> o.cfg]

\* the steps of main(), in program order (the engine runs one of the two
\* modes)
Steps == <<"parse", "load_config", "quick_start", "overrides", "flatten",
           "dry_run", "load_corpus", "load_fonts", "sample", "color", "mkdir",
           "build", "engine", "sequential", "pooled", "summary">>
StepNo(p) == CHOOSE i \in 1..Len(Steps) : Steps[i] = p

\* main() is about to run step p
At(p) == pc = p /\ exit_code = None

\* main() has completed step p
Past(p) == StepNo(pc) > StepNo(p)

\* the process has ended
Ended == exit_code # None

\* the process ends in the current step with the given status
Exit(code) ==
    /\ pc' = pc
    /\ exit_code' = Some(code)

engine_vars == <<rendered, progress, seq_i, pool, next_task, running, outq>>
build_vars == <<corpus_list, font_paths, strings, font_colors, mkdir_done, image_params>>

\* step 1 without the return of the diagnose mode
ParseArgsOnly ==
    /\ At("parse")
    /\ pc' = "load_config"
    /\ UNCHANGED <<inputs, idle_vars, args, cfg, exit_code, build_vars, engine_vars>>

\* step 1, and the diagnose mode, which returns before anything is loaded
ParseArgs ==
    /\ At("parse")
    /\ IF flags.diagnose THEN Exit(0)
       ELSE pc' = "load_config" /\ UNCHANGED exit_code
    /\ UNCHANGED <<inputs, idle_vars, args, cfg, build_vars, engine_vars>>

\* step 2: load_config raises FileNotFoundError, which __main__ turns into
\* exit status 1
LoadConfig ==
    /\ At("load_config")
    /\ IF cfg_exists
       THEN cfg' = base /\ pc' = "quick_start" /\ UNCHANGED exit_code
       ELSE Exit(1) /\ UNCHANGED cfg
    /\ UNCHANGED <<inputs, idle_vars, args, build_vars, engine_vars>>

\* step 3
QuickStart ==
    /\ At("quick_start")
    /\ IF flags.quick_start
       THEN LET r == apply_quick_start_settings(args, fs_corpus)
            IN  IF r.ok
                THEN args' = r.args /\ pc' = "overrides" /\ UNCHANGED exit_code
                ELSE Exit(1) /\ UNCHANGED args
       ELSE pc' = "overrides" /\ UNCHANGED <<args, exit_code>>
    /\ UNCHANGED <<inputs, idle_vars, cfg, build_vars, engine_vars>>

\* step 4
Overrides ==
    /\ At("overrides")
    /\ LET r == apply_command_line_overrides(args, flags.no_skew, cfg)
       IN  IF r.ok
           THEN cfg' = r.cfg /\ pc' = "flatten" /\ UNCHANGED exit_code
           ELSE Exit(1) /\ UNCHANGED cfg
    /\ UNCHANGED <<inputs, idle_vars, args, build_vars, engine_vars>>

\* step 5
FlattenStep ==
    /\ At("flatten")
    /\ args' = Flatten(args, cfg)
    /\ IF Flattens(cfg) THEN pc' = "dry_run" /\ UNCHANGED exit_code
       ELSE Exit(1)
    /\ UNCHANGED <<inputs, idle_vars, cfg, build_vars, engine_vars>>

\* step 7 without the return of the preview mode
DryRunIgnored ==
    /\ At("dry_run")
    /\ pc' = "load_corpus"
    /\ UNCHANGED <<inputs, idle_vars, args, cfg, exit_code, build_vars, engine_vars>>

\* step 7: the preview mode returns before any asset is read
DryRun ==
    /\ At("dry_run")
    /\ IF flags.dry_run THEN Exit(0)
       ELSE pc' = "load_corpus" /\ UNCHANGED exit_code
    /\ UNCHANGED <<inputs, idle_vars, args, cfg, build_vars, engine_vars>>

----------------------------------------------------------------------------
(* Asset loading: run.py steps 8 and 9 *)

Whitespace == {" ", "\t"}

RECURSIVE UsableLines(_)
UsableLines(raw) ==
    IF raw = <<>> THEN <<>>
    ELSE IF Strip(Head(raw), Whitespace) = <<>> THEN UsableLines(Tail(raw))
    ELSE <<Strip(Head(raw), Whitespace)>> \o UsableLines(Tail(raw))

\* load_corpus: ok = FALSE stands for sys.exit on a missing file; a file
\* that exists is returned as its stripped non-blank lines, however few
load_corpus(path, fsc) ==
    IF path \notin DOMAIN fsc \/ fsc[path] = None
    THEN [ok |-> FALSE, lines |-> <<>>]
    ELSE [ok |-> TRUE, lines |-> UsableLines(fsc[path][1])]

MissingNode == [kind |-> "missing", entries |-> <<>>]
Node(name, fsf) == IF name \in DOMAIN fsf THEN fsf[name] ELSE MissingNode

\* p.glob('*') filtered by is_file(), in the order the directory lists them
RECURSIVE GlobFiles(_, _)
GlobFiles(name, entries) ==
    IF entries = <<>> THEN <<>>
    ELSE (IF Head(entries).file THEN <<<<"fonts", name, Head(entries).name>>>> ELSE <<>>)
         \o GlobFiles(name, Tail(entries))

\* load_fonts that reports a missing path and goes on with no font
load_fonts_reporting(name, fsf) ==
    LET node == Node(name, fsf)
        found == GlobFiles(name, node.entries)
    IN  IF node.kind = "missing" THEN [ok |-> TRUE, paths |-> <<>>]
        ELSE IF node.kind = "file" THEN [ok |-> TRUE, paths |-> <<<<"fonts", name>>>>]
        ELSE [ok |-> found # <<>>, paths |-> found]

\* load_fonts: ok = FALSE stands for sys.exit (missing path, no file in the
\* directory)
load_fonts(name, fsf) ==
    LET node == Node(name, fsf)
        found == GlobFiles(name, node.entries)
    IN  IF node.kind = "missing" THEN [ok |-> FALSE, paths |-> <<>>]
        ELSE IF node.kind = "file" THEN [ok |-> TRUE, paths |-> <<<<"fonts", name>>>>]
        ELSE [ok |-> found # <<>>, paths |-> found]

\* step 8: Path(None) raises inside the try, sys.exit passes through it;
\* either way the process ends with status 1
LoadCorpus ==
    /\ At("load_corpus")
    /\ LET r == IF args.corpus = None THEN [ok |-> FALSE, lines |-> <<>>]
                ELSE load_corpus(args.corpus[1], fs_corpus)
       IN  IF r.ok
           THEN corpus_list' = r.lines /\ pc' = "load_fonts" /\ UNCHANGED exit_code
           ELSE Exit(1) /\ UNCHANGED corpus_list
    /\ UNCHANGED <<inputs, idle_vars, args, cfg, font_paths, strings, font_colors,
                   mkdir_done, image_params, engine_vars>>

\* step 9: an empty or missing fonts option loads the directory 'ch'
LoadFonts ==
    /\ At("load_fonts")
    /\ LET name == IF args.fonts = None \/ args.fonts[1] = "" THEN "ch"
                   ELSE args.fonts[1]
           r == load_fonts(name, fs_fonts)
       IN  IF r.ok
           THEN font_paths' = r.paths /\ pc' = "sample" /\ UNCHANGED exit_code
           ELSE Exit(1) /\ UNCHANGED font_paths
    /\ UNCHANGED <<inputs, idle_vars, args, cfg, corpus_list, strings, font_colors,
                   mkdir_done, image_params, engine_vars>>

----------------------------------------------------------------------------
(* Text sampling, colour, output directory and job building: steps 10 to 13 *)

\* the strategy tags left as they are spelt
UpperAsSpelt ==
    [CORPUS |-> "CORPUS", corpus |-> "corpus", Corpus |-> "Corpus",
     RANDOM |-> "RANDOM", random |-> "random", rAnDoM |-> "rAnDoM",
     DICT |-> "DICT", dict |-> "dict", dcit |-> "dcit"]

\* str.upper() on the strategy tags
Upper ==
    [CORPUS |-> "CORPUS", corpus |-> "CORPUS", Corpus |-> "CORPUS",
     RANDOM |-> "RANDOM", random |-> "RANDOM", rAnDoM |-> "RANDOM",
     DICT |-> "DICT", dict |-> "DICT", dcit |-> "DCIT"]

RandomText == <<"r">>

\* create_strings_from_corpus_file(corpus): the call hands over the path and
\* nothing else, so the result is the usable lines of the file, in file order
create_strings_from_corpus_file(path, fsc) == load_corpus(path, fsc).lines

\* create_strings_randomly_from_chars(..., count, ...): count strings
create_strings_randomly_from_chars(count) == [i \in 1..count |-> RandomText]

\* the words of item i (from 0), length words taken round the word list
RECURSIVE CycleWords(_, _, _)
CycleWords(words, at, length) ==
    IF length = 0 THEN <<>>
    ELSE words[(at % Len(words)) + 1]
         \o (IF length = 1 THEN <<>> ELSE <<" ">>)
         \o CycleWords(words, at + 1, length - 1)

\* create_strings_from_dict(length, random, count, corpus_list): count strings
create_strings_from_dict(length, count, words) ==
    [i \in 1..count |-> CycleWords(words, (i - 1) * length, length)]

\* step 10: ok = FALSE stands for an exception that leaves main() (an option
\* the namespace lacks, a count that is None, no word to draw from)
Sample(a, words, fsc) ==
    IF a.corpus_type = None THEN [ok |-> FALSE, strings |-> <<>>]
    ELSE IF Upper[a.corpus_type[1]] = "CORPUS"
    THEN [ok |-> TRUE, strings |-> create_strings_from_corpus_file(a.corpus[1], fsc)]
    ELSE IF a.length = None \/ a.random = None \/ a.count = None
    THEN [ok |-> FALSE, strings |-> <<>>]
    ELSE IF Upper[a.corpus_type[1]] = "RANDOM"
    THEN IF \/ a.include_letters = None \/ a.include_numbers = None
            \/ a.include_symbols = None \/ a.language = None
         THEN [ok |-> FALSE, strings |-> <<>>]
         ELSE [ok |-> TRUE, strings |-> create_strings_randomly_from_chars(a.count[1])]
    ELSE IF words = <<>> /\ a.count[1] > 0 /\ a.length[1] > 0
    THEN [ok |-> FALSE, strings |-> <<>>]
    ELSE [ok |-> TRUE,
          strings |-> create_strings_from_dict(a.length[1], a.count[1], words)]

\* NAME_FORMAT 2: the file is named by the job index
IndexNaming == 2

\* the rule after the random sampler, forcing only when symbols are included
ForceNameFormatOnSymbols(a) ==
    IF /\ Upper[a.corpus_type[1]] = "RANDOM"
       /\ a.include_symbols[1]
    THEN [a EXCEPT !.name_format = Some(IndexNaming)]
    ELSE a

\* the rule after the random sampler: with symbols included, or with no
\* character class enabled, args.name_format = 2
ForceNameFormat(a) ==
    IF /\ Upper[a.corpus_type[1]] = "RANDOM"
       /\ \/ a.include_symbols[1]
          \/ ~(a.include_letters[1] \/ a.include_numbers[1] \/ a.include_symbols[1])
    THEN [a EXCEPT !.name_format = Some(IndexNaming)]
    ELSE a

SampleStep ==
    /\ At("sample")
    /\ LET r == Sample(args, corpus_list, fs_corpus)
       IN  IF r.ok
           THEN /\ strings' = r.strings
                /\ args' = ForceNameFormat(args)
                /\ pc' = "color"
                /\ UNCHANGED exit_code
           ELSE Exit(1) /\ UNCHANGED <<strings, args>>
    /\ UNCHANGED <<inputs, idle_vars, cfg, corpus_list, font_paths, font_colors,
                   mkdir_done, image_params, engine_vars>>

\* a colour parser that falls back to black on a field that is no number
ParseColorOrBlack(text) ==
    LET fields == Split(Strip(text, {"(", ")"}), ",")
    IN  IF \E i \in 1..Len(fields) : ToInt(fields[i]) = None THEN Some(<<0, 0, 0>>)
        ELSE Some([i \in 1..Len(fields) |-> ToInt(fields[i])[1]])

\* tuple(map(int, text.strip("()").split(","))): None stands for ValueError
ParseColor(text) ==
    LET fields == Split(Strip(text, {"(", ")"}), ",")
    IN  IF \E i \in 1..Len(fields) : ToInt(fields[i]) = None THEN None
        ELSE Some([i \in 1..Len(fields) |-> ToInt(fields[i])[1]])

\* step 11: a colour that is None or does not parse ends the run with 1
ColorStep ==
    /\ At("color")
    /\ LET c == IF args.color = None THEN None ELSE ParseColor(args.color[1])
       IN  IF c # None
           THEN font_colors' = <<c[1]>> /\ pc' = "mkdir" /\ UNCHANGED exit_code
           ELSE Exit(1) /\ UNCHANGED font_colors
    /\ UNCHANGED <<inputs, idle_vars, args, cfg, corpus_list, font_paths, strings,
                   mkdir_done, image_params, engine_vars>>

\* step 12
MkDir ==
    /\ At("mkdir")
    /\ IF args.output_dir = None THEN Exit(1) /\ UNCHANGED mkdir_done
       ELSE mkdir_done' = TRUE /\ pc' = "build" /\ UNCHANGED exit_code
    /\ UNCHANGED <<inputs, idle_vars, args, cfg, corpus_list, font_paths, strings,
                   font_colors, image_params, engine_vars>>

\* the whole palette in the place of one colour of it
JobColorList(i, palette) == palette

\* font_colors[i % num_colors]
JobColor(i, palette) == palette[(i % Len(palette)) + 1]

\* the tuple of job i with the index counted from 1
param_tuple_from_one(i, a, strs, fonts, palette) ==
    [index |-> i + 1, text |-> strs[i + 1], fonts |-> fonts,
     output_dir |-> a.output_dir[1], cursive |-> 0, size |-> a.size,
     extension |-> a.extension, skew_angle |-> a.skew_angle,
     width |-> a.width, color |-> JobColor(i, palette),
     orientation |-> a.orientation[1], space_width |-> a.space_width[1],
     margins |-> a.margins, fit |-> a.fit[1],
     stroke_width |-> a.stroke_width[1], stroke_fill |-> a.stroke_fill[1],
     height |-> a.height]

\* the tuple of job i (from 0)
param_tuple(i, a, strs, fonts, palette) ==
    [index |-> i, text |-> strs[i + 1], fonts |-> fonts,
     output_dir |-> a.output_dir[1], cursive |-> 0, size |-> a.size,
     extension |-> a.extension, skew_angle |-> a.skew_angle,
     width |-> a.width, color |-> JobColor(i, palette),
     orientation |-> a.orientation[1], space_width |-> a.space_width[1],
     margins |-> a.margins, fit |-> a.fit[1],
     stroke_width |-> a.stroke_width[1], stroke_fill |-> a.stroke_fill[1],
     height |-> a.height]

\* the options argparse does not define: reading a missing one raises
Unparsed == {"orientation", "space_width", "fit", "stroke_width", "stroke_fill"}

\* step 13
Build ==
    /\ At("build")
    /\ IF strings # <<>> /\ \E n \in Unparsed : args[n] = None
       THEN Exit(1) /\ UNCHANGED <<image_params, rendered>>
       ELSE /\ image_params' = [p \in 1..Len(strings) |->
                                  param_tuple(p - 1, args, strings, font_paths, font_colors)]
            /\ rendered' = [i \in 0..(Len(strings) - 1) |-> 0]
            /\ pc' = "engine"
            /\ UNCHANGED exit_code
    /\ UNCHANGED <<inputs, idle_vars, args, cfg, corpus_list, font_paths, strings,
                   font_colors, mkdir_done, progress, seq_i, pool, next_task,
                   running, outq>>

----------------------------------------------------------------------------
(* The execution engine: step 14, and the completion report *)

NumJobs == Len(image_params)

\* the renderer is called for job i (from 0)
Render(i) == rendered' = [rendered EXCEPT ![i] = @ + 1]

\* the branch of step 14 with < 1 for <= 1: one worker opens a pool
EngineStartStrict ==
    /\ At("engine")
    /\ IF args.extension = None \/ args.num_workers = None
       THEN Exit(1) /\ UNCHANGED pool
       ELSE IF args.num_workers[1] < 1
       THEN pc' = "sequential" /\ UNCHANGED <<pool, exit_code>>
       ELSE pc' = "pooled" /\ pool' = "open" /\ UNCHANGED exit_code
    /\ UNCHANGED <<inputs, idle_vars, args, cfg, build_vars, rendered, progress, seq_i,
                   next_task, running, outq>>

\* the banner and the branch of step 14: None.upper() raises before the try
\* and None <= 1 inside it (status 1 either way); a
\* worker count of at most 1 runs the for loop, a larger one opens the pool
EngineStart ==
    /\ At("engine")
    /\ IF args.extension = None \/ args.num_workers = None
       THEN Exit(1) /\ UNCHANGED pool
       ELSE IF args.num_workers[1] <= 1
       THEN pc' = "sequential" /\ UNCHANGED <<pool, exit_code>>
       ELSE pc' = "pooled" /\ pool' = "open" /\ UNCHANGED exit_code
    /\ UNCHANGED <<inputs, idle_vars, args, cfg, build_vars, rendered, progress, seq_i,
                   next_task, running, outq>>

\* one turn of the for loop: generate(*params) for the next job; an exception
\* leaves the loop for the except clause, which exits with status 1
SequentialStep ==
    /\ At("sequential")
    /\ seq_i < NumJobs
    /\ Render(seq_i)
    /\ IF seq_i \in failing
       THEN Exit(1) /\ UNCHANGED <<seq_i, progress>>
       ELSE /\ seq_i' = seq_i + 1
            /\ progress' = progress + 1
            /\ UNCHANGED <<pc, exit_code>>
    /\ UNCHANGED <<inputs, idle_vars, args, cfg, build_vars, pool, next_task, running, outq>>

\* the for loop has run out of jobs
SequentialEnd ==
    /\ At("sequential")
    /\ seq_i = NumJobs
    /\ pc' = "summary"
    /\ UNCHANGED <<inputs, idle_vars, args, cfg, exit_code, build_vars, engine_vars>>

\* a worker takes a task that stays at the head of the task list
WorkerTakeAgain ==
    /\ At("pooled")
    /\ next_task < NumJobs
    /\ Cardinality(running) < args.num_workers[1]
    /\ Render(next_task)
    /\ running' = running \cup {next_task}
    /\ UNCHANGED <<inputs, idle_vars, args, cfg, pc, exit_code, build_vars, progress,
                   seq_i, pool, next_task, outq>>

\* a free worker of the pool takes the next task and calls the renderer
WorkerTake ==
    /\ At("pooled")
    /\ next_task < NumJobs
    /\ Cardinality(running) < args.num_workers[1]
    /\ Render(next_task)
    /\ running' = running \cup {next_task}
    /\ next_task' = next_task + 1
    /\ UNCHANGED <<inputs, idle_vars, args, cfg, pc, exit_code, build_vars, progress,
                   seq_i, pool, outq>>

\* a worker finishes a job, in any order: its result, the value or the
\* exception, is queued for the parent
WorkerFinish(i) ==
    /\ At("pooled")
    /\ i \in running
    /\ running' = running \ {i}
    /\ outq' = Append(outq, i)
    /\ UNCHANGED <<inputs, idle_vars, args, cfg, pc, exit_code, build_vars, rendered,
                   progress, seq_i, pool, next_task>>

\* the parent takes the next finished result from imap_unordered: a value is
\* counted by the progress bar, an exception is raised again in the parent,
\* leaves the with block (which terminates the pool) and exits with status 1
Collect ==
    /\ At("pooled")
    /\ outq # <<>>
    /\ outq' = Tail(outq)
    /\ IF Head(outq) \in failing
       THEN Exit(1) /\ pool' = "terminated" /\ UNCHANGED progress
       ELSE progress' = progress + 1 /\ UNCHANGED <<pc, exit_code, pool>>
    /\ UNCHANGED <<inputs, idle_vars, args, cfg, build_vars, rendered, seq_i, next_task,
                   running>>

\* every result has been taken: the with block ends and terminates the pool
PooledEnd ==
    /\ At("pooled")
    /\ progress = NumJobs
    /\ pool' = "terminated"
    /\ pc' = "summary"
    /\ UNCHANGED <<inputs, idle_vars, args, cfg, exit_code, build_vars, rendered, progress,
                   seq_i, next_task, running, outq>>

\* the completion report; main() returns and the process ends with status 0
Summary ==
    /\ At("summary")
    /\ Exit(0)
    /\ UNCHANGED <<inputs, idle_vars, args, cfg, build_vars, engine_vars>>

\* the for loop of the sequential mode as a function: the jobs it hands to
\* the renderer from position i on, for n jobs and the failing jobs x; the
\* first exception ends the loop
RECURSIVE SequentialRun(_, _, _)
SequentialRun(i, n, x) ==
    IF i >= n THEN {}
    ELSE IF i \in x THEN {i}
    ELSE {i} \cup SequentialRun(i + 1, n, x)

\* Ctrl-C handled by the clause for every other exception: status 1
InterruptAsFailure ==
    /\ At("sequential") \/ At("pooled")
    /\ interrupted' = TRUE
    /\ Exit(1)
    /\ pool' = IF pc = "pooled" THEN "terminated" ELSE pool
    /\ UNCHANGED <<inputs, aug_vars, log_vars, args, cfg, build_vars, rendered, progress,
                   seq_i, next_task, running, outq>>

\* Ctrl-C while the engine runs: KeyboardInterrupt is raised in the parent
\* inside the try of step 14, leaves the for loop or the with block (which
\* terminates the pool) and reaches the except clause, which exits with
\* status 0; the report after the try is not reached
Interrupt ==
    /\ At("sequential") \/ At("pooled")
    /\ interrupted' = TRUE
    /\ Exit(0)
    /\ pool' = IF pc = "pooled" THEN "terminated" ELSE pool
    /\ UNCHANGED <<inputs, aug_vars, log_vars, args, cfg, build_vars, rendered, progress,
                   seq_i, next_task, running, outq>>

Next ==
    \/ ParseArgs
    \/ LoadConfig
    \/ QuickStart
    \/ Overrides
    \/ FlattenStep
    \/ DryRun
    \/ LoadCorpus
    \/ LoadFonts
    \/ SampleStep
    \/ ColorStep
    \/ MkDir
    \/ Build
    \/ EngineStart
    \/ SequentialStep
    \/ SequentialEnd
    \/ WorkerTake
    \/ \E i \in running : WorkerFinish(i)
    \/ Collect
    \/ PooledEnd
    \/ Interrupt
    \/ Summary

----------------------------------------------------------------------------
(* The augmentation pipeline: src/img_aug.py *)

\* an image is the picture it was made from and the effects applied to it,
\* oldest first
Image(source) == [source |-> source, effects |-> <<>>]
Effect(img, tag) == [img EXCEPT !.effects = Append(@, tag)]
Picture == Image("a")
Pictures == {Image("a"), Image("b")}

\* probabilities and the draws of random.random(), in hundredths
BlurP == 25
BrightnessP == 30
ContrastP == 30
NoiseP == 25
Draws == {0, 27, 99}

\* _rand_bool with <= for <
rand_bool_inclusive(p, r) == r <= p

\* _rand_bool(p), for the draw r of random.random()
rand_bool(p, r) == r < p

\* the four stages: the gate draw decides between the image itself and the
\* image with the effect applied
gaussian_blur(img, p, r) ==
    IF ~rand_bool(p, r) THEN img ELSE Effect(img, "blur")

brightness(img, p, r) ==
    IF ~rand_bool(p, r) THEN img ELSE Effect(img, "brightness")

contrast(img, p, r) ==
    IF ~rand_bool(p, r) THEN img ELSE Effect(img, "contrast")

add_gaussian_noise(img, p, r) ==
    IF ~rand_bool(p, r) THEN img ELSE Effect(img, "noise")

\* the list with contrast before brightness
AUGSReordered == <<"gaussian_blur", "contrast", "brightness", "add_gaussian_noise">>

\* _AUGS, the list the pipeline iterates
AUGS == <<"gaussian_blur", "brightness", "contrast", "add_gaussian_noise">>

\* fn(img) for the stage named fn: the call passes the image alone, so each
\* stage runs with its default probability
CallStage(fn, img, r) ==
    CASE fn = "gaussian_blur" -> gaussian_blur(img, BlurP, r)
      [] fn = "brightness" -> brightness(img, BrightnessP, r)
      [] fn = "contrast" -> contrast(img, ContrastP, r)
      [] fn = "add_gaussian_noise" -> add_gaussian_noise(img, NoiseP, r)

\* no call of apply_augmentations is in progress; img is the image it will
\* be called with
AugIdle(img) ==
    /\ aug_pc = "idle"
    /\ aug_i = 1
    /\ aug_img = img
    /\ aug_trace = <<>>

main_vars == <<pc, args, cfg, exit_code, build_vars, engine_vars, interrupted>>

\* apply_augmentations(img) is entered
AugCall ==
    /\ aug_pc = "idle"
    /\ aug_pc' = "loop"
    /\ UNCHANGED <<inputs, main_vars, log_vars, aug_i, aug_img, aug_trace>>

\* one turn of the for loop: img = fn(img), with the gate draw of that call
AugStage ==
    /\ aug_pc = "loop"
    /\ aug_i <= Len(AUGS)
    /\ \E r \in Draws :
        LET out == CallStage(AUGS[aug_i], aug_img, r)
        IN  /\ aug_img' = out
            /\ aug_trace' = Append(aug_trace,
                                [stage |-> AUGS[aug_i], input |-> aug_img,
                                 draw |-> r, output |-> out])
    /\ aug_i' = aug_i + 1
    /\ UNCHANGED <<inputs, main_vars, log_vars, aug_pc>>

\* the list is exhausted: return img
AugReturn ==
    /\ aug_pc = "loop"
    /\ aug_i > Len(AUGS)
    /\ aug_pc' = "returned"
    /\ UNCHANGED <<inputs, main_vars, log_vars, aug_i, aug_img, aug_trace>>

NextAug ==
    \/ AugCall
    \/ AugStage
    \/ AugReturn

----------------------------------------------------------------------------
(* The logger: src/core/logger.py *)

MaxLogCalls == 3

\* logging.NOTSET, logging.DEBUG and logging.INFO
NotSet == 0
Debug == 10
Info == 20

LoggerNames == {"data_gen", "other"}
DefaultFormat == "[%(levelname)s] %(message)s"

\* the formats a caller passes: none, the empty text, a format of its own
Formats == {None, Some(""), Some("%(message)s")}

\* the registry before any call: logging.getLogger(name) makes a logger with
\* no level of its own and no handler; a handler is held as its format
NoLoggers == [n \in LoggerNames |-> [level |-> NotSet, handlers |-> <<>>]]

\* setup_logger that configures the logger on every call
setup_logger_again(reg, name, level, fmt) ==
    [reg EXCEPT ![name] =
        [level |-> level,
         handlers |-> Append(@.handlers,
                             IF fmt = None \/ fmt = Some("") THEN DefaultFormat
                             ELSE fmt[1])]]

\* setup_logger(name, level, fmt): the registry after the call; a logger
\* that has a handler is returned as it is
setup_logger(reg, name, level, fmt) ==
    IF reg[name].handlers # <<>> THEN reg
    ELSE [reg EXCEPT ![name] =
            [level |-> level,
             handlers |-> Append(@.handlers,
                                 IF fmt = None \/ fmt = Some("") THEN DefaultFormat
                                 ELSE fmt[1])]]

\* a call of setup_logger with any name, level and format
SetupLogger ==
    /\ Len(log_calls) < MaxLogCalls
    /\ \E name \in LoggerNames, level \in {Debug, Info}, fmt \in Formats :
        LET after == setup_logger(loggers, name, level, fmt)
        IN  /\ loggers' = after
            /\ log_calls' = Append(log_calls,
                                [name |-> name, level |-> level, fmt |-> fmt,
                                 before |-> loggers[name],
                                 returned |-> after[name]])
    /\ UNCHANGED <<inputs, main_vars, aug_vars>>

----------------------------------------------------------------------------
(* Inputs: the command line, the configuration document and the file system *)

MaxOverrides == 2
MaxLines == 3
MaxCount == 3
MaxFonts == 2
MaxWorkers == 3
MaxCalls == 3

OtherCorpus == "texts/other.txt"
RedText == <<"2", "5", "5", ",", "0", ",", "0">>

\* the value each option takes when it is given on the command line
OverrideValue ==
    [output_dir |-> "my_dataset", language |-> "en", corpus |-> OtherCorpus,
     count |-> 1, fonts |-> "en", size |-> 64, color |-> RedText,
     width |-> 800, height |-> 64, extension |-> "png",
     margins |-> "10,5,10,5", skew_angle |-> 10, num_workers |-> 8]

\* the parsed namespace when exactly the options of given are supplied
CliArgs(given) ==
    [n \in ArgNames |-> IF n \in given THEN Some(OverrideValue[n]) ELSE None]

Flags == [diagnose : BOOLEAN, dry_run : BOOLEAN, quick_start : BOOLEAN,
          no_skew : BOOLEAN]
NoFlags == [diagnose |-> FALSE, dry_run |-> FALSE, quick_start |-> FALSE,
            no_skew |-> FALSE]

\* raw corpus files: every sequence of at most MaxLines lines
RawLines == {<<" ">>, <<"a">>, <<" ", "b", "\t">>}
RawFiles == UNION {[1..n -> RawLines] : n \in 0..MaxLines}
TwoLines == <<<<"a">>, <<" ", "b", "\t">>>>

\* the texts/ directory: which of the three corpus files exist, and with what
Texts(chinese, english, other) ==
    (SampleChinese :> chinese) @@ (SampleEnglish :> english) @@ (OtherCorpus :> other)

FileNode == [kind |-> "file", entries |-> <<>>]
DirNode(entries) == [kind |-> "dir", entries |-> entries]

\* directory listings: the entries of a directory in the order the operating
\* system lists them; an entry is a regular file or not (a sub-directory)
Listings ==
    {l \in UNION {[1..n -> [name : 1..MaxFonts, file : BOOLEAN]] : n \in 0..MaxFonts} :
        \A i, j \in 1..Len(l) : i # j => l[i].name # l[j].name}
FontNodes == {MissingNode, FileNode} \cup {DirNode(l) : l \in Listings}

OneFontDir == DirNode(<<[name |-> 1, file |-> TRUE]>>)
Fonts(ch, en) == ("ch" :> ch) @@ ("en" :> en)

\* main() is entered with the given inputs
StartMain(f, e, b, fc, ff, x, a) ==
    /\ flags = f
    /\ cfg_exists = e
    /\ base = b
    /\ fs_corpus = fc
    /\ fs_fonts = ff
    /\ failing = x
    /\ cli = a
    /\ args = a
    /\ pc = "parse"
    /\ cfg = <<>>
    /\ exit_code = None
    /\ corpus_list = <<>>
    /\ font_paths = <<>>
    /\ strings = <<>>
    /\ font_colors = <<>>
    /\ mkdir_done = FALSE
    /\ image_params = <<>>
    /\ rendered = <<>>
    /\ progress = 0
    /\ seq_i = 0
    /\ pool = "none"
    /\ next_task = 0
    /\ running = {}
    /\ outq = <<>>
    /\ interrupted = FALSE
    /\ loggers = NoLoggers
    /\ log_calls = <<>>

\* a run of main(), with no augmentation call in progress
Start(f, e, b, fc, ff, x, a) ==
    /\ StartMain(f, e, b, fc, ff, x, a)
    /\ AugIdle(Picture)

\* config resolution: every flag combination, every set of at most
\* MaxOverrides command-line options, a present or missing document, and the
\* sample corpora present or not
Init ==
    \E f \in Flags, e \in BOOLEAN,
       given \in {g \in SUBSET OverrideKeys : Cardinality(g) <= MaxOverrides},
       t \in {Texts(Some(TwoLines), Some(TwoLines), Some(TwoLines)),
              Texts(None, Some(TwoLines), Some(TwoLines)),
              Texts(None, None, Some(TwoLines))},
       w \in 1..2 :
        Start(f, e, SampleConfig(MaxCount, w, "CORPUS"), t,
              Fonts(OneFontDir, FileNode), {}, CliArgs(given))

Spec == Init /\ [][Next]_vars

\* the corpus and the sampler: every raw corpus file (or none), every
\* strategy tag, every item count up to MaxCount
InitCorpus ==
    \E file \in {None} \cup {Some(r) : r \in RawFiles}, count \in 0..MaxCount,
       tag \in DOMAIN Upper, w \in 1..2, d \in BOOLEAN :
        Start([NoFlags EXCEPT !.dry_run = d], TRUE, SampleConfig(count, w, tag),
              Texts(file, None, None), Fonts(OneFontDir, MissingNode), {},
              CliArgs({}))

SpecCorpus == InitCorpus /\ [][Next]_vars

\* the font loader: every node at fonts/ch and fonts/en, with or without
\* the fonts option on the command line
InitFonts ==
    \E ch \in FontNodes, en \in {MissingNode, FileNode}, w \in 1..2,
       given \in SUBSET {"fonts"}, c \in BOOLEAN,
       tag \in {"CORPUS", "RANDOM", "DICT"} :
        Start(NoFlags, TRUE, SampleConfig(2, w, tag),
              Texts(IF c THEN Some(TwoLines) ELSE None, None, None),
              Fonts(ch, en), {}, CliArgs(given))

SpecFonts == InitFonts /\ [][Next]_vars

\* the engine: every item count up to MaxCount, every worker count from -1
\* to MaxWorkers, every set of jobs for which the renderer raises
InitEngine ==
    \E count \in 0..MaxCount, w \in (-1)..MaxWorkers,
       x \in SUBSET (0..(MaxCount - 1)) :
        Start(NoFlags, TRUE, SampleConfig(count, w, "RANDOM"),
              Texts(Some(TwoLines), None, None), Fonts(OneFontDir, MissingNode),
              x, CliArgs({}))

SpecEngine == InitEngine /\ [][Next]_vars

\* the sample document with the given naming scheme and character classes
NamingConfig(count, workers, ctype, nf, letters, numbers, symbols) ==
    [SampleConfig(count, workers, ctype) EXCEPT
        !.FILE_SETTINGS.NAME_FORMAT = nf,
        !.TEXT_SETTINGS.INCLUDE_LETTERS = letters,
        !.TEXT_SETTINGS.INCLUDE_NUMBERS = numbers,
        !.TEXT_SETTINGS.INCLUDE_SYMBOLS = symbols]

\* naming: every strategy, every NAME_FORMAT of the document and every
\* choice of character classes
InitNaming ==
    \E tag \in {"RANDOM", "random", "CORPUS", "DICT"}, nf \in 0..2, w \in 1..2,
       letters \in BOOLEAN, numbers \in BOOLEAN, symbols \in BOOLEAN :
        Start(NoFlags, TRUE,
              NamingConfig(2, w, tag, nf, letters, numbers, symbols),
              Texts(Some(TwoLines), None, None),
              Fonts(OneFontDir, MissingNode), {}, CliArgs({}))

SpecNaming == InitNaming /\ [][Next]_vars

\* the document without the section s
Without(doc, s) == [k \in (DOMAIN doc) \ {s} |-> doc[k]]

\* a colour text that is no triple of numbers
NamedColor == <<"r", "e", "d">>

\* a directory that holds a sub-directory and no file
NoFontDir == DirNode(<<[name |-> 1, file |-> FALSE]>>)

\* startup errors: the document present or not, with or without its
\* distortion section and an override that targets it, a well-formed or
\* malformed colour, the corpus file present or not, and fonts/ch missing,
\* empty, without a regular file or with one
InitStartup ==
    \E e \in BOOLEAN, whole \in BOOLEAN, given \in SUBSET {"skew_angle"},
       color \in {BlackText, NamedColor},
       corpus \in {None, Some(TwoLines)},
       ch \in {MissingNode, DirNode(<<>>), NoFontDir, OneFontDir}, w \in 1..2 :
        LET colored == [SampleConfig(MaxCount, w, "CORPUS") EXCEPT
                            !.TEXT_SETTINGS.COLOR = color]
            doc == IF whole THEN colored
                   ELSE Without(colored, "DISTORTION_SETTINGS")
        IN  Start(NoFlags, e, doc, Texts(corpus, None, None),
                  Fonts(ch, MissingNode), {}, CliArgs(given))

SpecStartup == InitStartup /\ [][Next]_vars

\* the document with one more top-level key
With(doc, key, value) == [k \in (DOMAIN doc) \cup {key} |->
                            IF k = key THEN value ELSE doc[k]]

\* documents that are not the five sections: one section missing, or a
\* top-level key that is no section (a mapping, a scalar)
BrokenDocs(doc) ==
    {Without(doc, SectionOrder[i]) : i \in 1..Len(SectionOrder)}
    \cup {With(doc, "EXTRA_SETTINGS", [SIZE |-> 48]), With(doc, "VERSION", Some(1))}

\* the options SampleConfig adds to the sample document of setup.py
Completions == {"COUNT", "LENGTH", "RANDOM", "INCLUDE_LETTERS",
                "INCLUDE_NUMBERS", "INCLUDE_SYMBOLS"}

\* the sample document of setup.py as it is written, with the given worker
\* count
SetupSample(workers) ==
    LET doc == SampleConfig(0, workers, "CORPUS")
    IN  [s \in DOMAIN doc |-> [k \in (DOMAIN doc[s]) \ Completions |-> doc[s][k]]]

\* document shapes: the completed sample document, the sample document as
\* setup.py writes it and every broken one, with the disable-skew flag and
\* overrides that do or do not target a missing section
InitDocs ==
    \E w \in 1..2, n \in BOOLEAN,
       given \in {g \in SUBSET {"size", "skew_angle", "num_workers"} :
                    Cardinality(g) <= MaxOverrides} :
        \E doc \in {SampleConfig(MaxCount, w, "CORPUS"), SetupSample(w)}
                    \cup BrokenDocs(SampleConfig(MaxCount, w, "CORPUS")) :
            Start([NoFlags EXCEPT !.no_skew = n], TRUE, doc,
                  Texts(Some(TwoLines), None, None),
                  Fonts(OneFontDir, MissingNode), {}, CliArgs(given))

SpecDocs == InitDocs /\ [][Next]_vars

\* the augmentation pipeline, called with each picture; main() has not run
InitAug ==
    \E img \in Pictures :
        /\ StartMain(NoFlags, TRUE, SampleConfig(MaxCount, 1, "CORPUS"),
                     Texts(Some(TwoLines), None, None),
                     Fonts(OneFontDir, MissingNode), {}, CliArgs({}))
        /\ AugIdle(img)

SpecAug == InitAug /\ [][NextAug]_vars

\* setup_logger called any number of times; main() has not run
InitLogger ==
    /\ StartMain(NoFlags, TRUE, SampleConfig(MaxCount, 1, "CORPUS"),
                 Texts(Some(TwoLines), None, None),
                 Fonts(OneFontDir, MissingNode), {}, CliArgs({}))
    /\ AugIdle(Picture)

SpecLogger == InitLogger /\ [][SetupLogger]_vars

\* the probabilities a caller passes to a stage: never, the default of
\* gaussian_blur, always
Probs == {0, BlurP, 100}

\* fn(img, p) for the stage named fn
StageFn(fn, img, p, r) ==
    CASE fn = "gaussian_blur" -> gaussian_blur(img, p, r)
      [] fn = "brightness" -> brightness(img, p, r)
      [] fn = "contrast" -> contrast(img, p, r)
      [] fn = "add_gaussian_noise" -> add_gaussian_noise(img, p, r)

\* a caller applies one stage to the image it holds, with a probability of
\* its choice, and keeps the result
StageCall ==
    /\ aug_pc = "idle"
    /\ Len(aug_trace) < MaxCalls
    /\ \E i \in 1..Len(AUGS), p \in Probs, r \in Draws :
        LET out == StageFn(AUGS[i], aug_img, p, r)
        IN  /\ aug_img' = out
            /\ aug_trace' = Append(aug_trace,
                                [stage |-> AUGS[i], p |-> p, input |-> aug_img,
                                 draw |-> r, output |-> out])
    /\ UNCHANGED <<inputs, main_vars, log_vars, aug_pc, aug_i>>

\* the stage functions called one after the other on one picture
InitStages ==
    /\ StartMain(NoFlags, TRUE, SampleConfig(MaxCount, 1, "CORPUS"),
                 Texts(Some(TwoLines), None, None),
                 Fonts(OneFontDir, MissingNode), {}, CliArgs({}))
    /\ AugIdle(Picture)

SpecStages == InitStages /\ [][StageCall]_vars

----------------------------------------------------------------------------
(* Properties *)

\* the worker count the engine branches on
Workers == args.num_workers[1]

\* the engine has been entered in the sequential / the pooled mode
InSequential == pc \in {"sequential", "summary"} /\ Workers <= 1
InPooled == pc \in {"pooled", "summary"} /\ Workers > 1

\* C1: in sequential mode a job whose renderer call raises does not stop the
\* run: when the process has ended without an interrupt, every job of the
\* sequence has been handed to the renderer and the run has not ended with
\* the failure status.
C1_SequentialFailureDoesNotAbort ==
    (Ended /\ InSequential /\ ~interrupted) =>
        /\ \A i \in DOMAIN rendered : rendered[i] >= 1
        /\ exit_code = Some(0)

\* C2: in pooled mode a worker invocation that raises does not terminate the
\* pool before its work is done: when the process has ended without an
\* interrupt, every job has been rendered and every result collected.
C2_PooledFailureDoesNotTerminate ==
    (Ended /\ InPooled /\ ~interrupted) =>
        /\ \A i \in DOMAIN rendered : rendered[i] >= 1
        /\ progress + Cardinality(failing \cap DOMAIN rendered) = NumJobs
        /\ exit_code = Some(0)

\* C3: with the disable-skew flag every built job carries skew angle 0 and
\* random skew is off, whatever else was given on the command line.
C3_NoSkewForcesZero ==
    (flags.no_skew /\ Past("build")) =>
        /\ \A p \in DOMAIN image_params : image_params[p].skew_angle = Some(0)
        /\ args.random_skew = Some(FALSE)

\* the five options the quick-start preset may set
PresetKeys == {"count", "num_workers", "corpus", "language", "fonts"}

\* C4: with the quick-start preset, an option given on the command line
\* keeps the command line's value in the resolved namespace.
C4_ExplicitBeatsPreset ==
    (flags.quick_start /\ Past("flatten")) =>
        \A n \in PresetKeys : cli[n] # None => args[n] = cli[n]

\* C5: whatever the strategy, for a positive item count and a corpus with a
\* usable line, the sampler hands the job builder exactly as many strings as
\* the requested item count, and as many jobs are built.
C5_SampleCountIsRequested ==
    LET valid == args.count[1] >= 1 /\ corpus_list # <<>>
    IN  /\ (Past("sample") /\ valid) => Len(strings) = args.count[1]
        /\ (Past("build") /\ valid) => NumJobs = args.count[1]

\* C6: a corpus file without a usable line stops the run in the corpus
\* loader: the steps after it never see an empty corpus.
C6_EmptyCorpusIsFatal ==
    Past("load_corpus") => corpus_list # <<>>

\* the corpus file the resolved namespace names does not exist
CorpusMissing ==
    args.corpus = None \/ \A path \in DOMAIN fs_corpus :
                             path = args.corpus[1] => fs_corpus[path] = None

\* the name under fonts/ that step 9 loads, and the node found there
FontName == IF args.fonts = None \/ args.fonts[1] = "" THEN "ch" ELSE args.fonts[1]
FontNode == IF FontName \in DOMAIN fs_fonts THEN fs_fonts[FontName] ELSE MissingNode
FontMissing == FontNode.kind = "missing"

\* C7: with the corpus file or the font path missing the run ends in asset
\* loading with the failure status: no job is built, the output directory is
\* not created, the engine is not entered and the renderer is never called.
C7_MissingAssetAborts ==
    (Past("flatten") /\ (CorpusMissing \/ FontMissing)) =>
        /\ ~Past("load_fonts")
        /\ image_params = <<>> /\ strings = <<>>
        /\ rendered = <<>> /\ progress = 0 /\ pool = "none"
        /\ ~mkdir_done
        /\ (Ended /\ ~flags.dry_run) =>
              /\ exit_code = Some(1)
              /\ pc = (IF CorpusMissing THEN "load_corpus" ELSE "load_fonts")

\* the run of C7 has ended in the font loader, on a missing font path, after
\* a corpus was loaded
C7_Witness ==
    /\ Ended /\ pc = "load_fonts" /\ exit_code = Some(1)
    /\ FontMissing /\ ~CorpusMissing /\ corpus_list # <<>>

\* the regular files of the loaded directory
RegularFiles == {i \in 1..Len(FontNode.entries) : FontNode.entries[i].file}

\* C8: a directory with k regular files is loaded as k distinct paths in
\* ascending order of name, a single file as a one-element list, and a
\* missing path or a directory without a regular file ends the run.
C8_FontsSortedUnique ==
    /\ (Past("load_fonts") /\ FontNode.kind = "dir") =>
          /\ Len(font_paths) = Cardinality(RegularFiles)
          /\ \A i, j \in 1..Len(font_paths) :
                i < j => font_paths[i][3] < font_paths[j][3]
    /\ (Past("load_fonts") /\ FontNode.kind = "file") =>
          font_paths = <<<<"fonts", FontName>>>>
    /\ (Past("load_corpus") /\ (FontMissing \/ (FontNode.kind = "dir" /\ RegularFiles = {}))) =>
          ~Past("load_fonts")

\* the namespace apply_command_line_overrides is called with: the parsed
\* command line, after the quick-start preset when that was requested
OverridesIn ==
    IF flags.quick_start THEN apply_quick_start_settings(cli, fs_corpus).args ELSE cli

\* the value of override key n in the document of the --cfg file, if any
BaseValue(n) ==
    LET section == override_mapping[n][1]
        key == override_mapping[n][2]
    IN  IF section \in DOMAIN base /\ key \in DOMAIN base[section]
        THEN Some(base[section][key]) ELSE None

C10_ColorRotation ==
    \A p \in DOMAIN image_params :
        /\ image_params[p].index = p - 1
        /\ Len(font_colors) >= 1
        /\ image_params[p].color = font_colors[((p - 1) % Len(font_colors)) + 1]

\* two jobs built with the colour given on the command line
C10_Witness ==
    /\ Past("build") /\ NumJobs >= 2
    /\ cli.color # None
    /\ image_params[2].color = <<255, 0, 0>>

\* C11: resolving again is a no-op: applied to the resolved configuration,
\* steps 3 to 5 succeed and return the namespace and the configuration
\* unchanged, both with the resolved namespace and with the command line as
\* parsed (the same overrides a second time).
C11_ResolutionIdempotent ==
    Past("flatten") =>
        /\ resolve(args, flags, cfg, fs_corpus) =
              [ok |-> TRUE, args |-> args, cfg |-> cfg]
        /\ resolve(cli, flags, cfg, fs_corpus) =
              [ok |-> TRUE, args |-> args, cfg |-> cfg]

\* a resolved run with the quick-start preset, the disable-skew flag and a
\* colour override that step 4 wrapped in parentheses
C11_Witness ==
    /\ Past("flatten")
    /\ flags.quick_start /\ flags.no_skew
    /\ cli.color = Some(RedText)
    /\ cfg.TEXT_SETTINGS.COLOR = <<"(">> \o RedText \o <<")">>
    /\ cfg.DISTORTION_SETTINGS.SKEW_ANGLE = 0
    /\ args.count = Some(QuickCount)

\* nothing after step 7 has run: no asset loaded, no string sampled, no
\* colour parsed, no directory created, no job built, the engine not entered
NothingLoadedOrRun ==
    /\ corpus_list = <<>> /\ font_paths = <<>> /\ strings = <<>>
    /\ font_colors = <<>> /\ ~mkdir_done /\ image_params = <<>>
    /\ rendered = <<>> /\ progress = 0 /\ seq_i = 0 /\ pool = "none"
    /\ next_task = 0 /\ running = {} /\ outq = <<>>

\* C12: with the dry-run flag the run never goes beyond step 7: the corpus
\* loader, the font loader, the sampler, the creation of the output
\* directory, the job builder and the engine are never invoked, and a run
\* that got as far as step 7 ends there with status 0.
C12_DryRunStopsAfterResolution ==
    flags.dry_run =>
        /\ ~Past("dry_run")
        /\ NothingLoadedOrRun
        /\ (Ended /\ pc = "dry_run") => exit_code = Some(0)

\* a dry run that has ended in step 7 with the resolved item count
C12_Witness ==
    /\ flags.dry_run /\ ~flags.diagnose
    /\ Ended /\ pc = "dry_run" /\ exit_code = Some(0)
    /\ args.count # None /\ args.corpus # None

\* C13: with the diagnose flag, whatever the other flags and options, main()
\* never goes beyond step 1: the document is not loaded, the namespace is as
\* parsed (no preset, no override, no flattening), nothing is loaded, built
\* or run, and the process ends with status 0.
C13_DiagnoseBypassesPipeline ==
    flags.diagnose =>
        /\ pc = "parse"
        /\ cfg = <<>> /\ args = cli
        /\ NothingLoadedOrRun
        /\ Ended => exit_code = Some(0)

\* a diagnose run that has ended although the dry-run, quick-start and
\* disable-skew flags and two overrides were given and no document exists
C13_Witness ==
    /\ flags.diagnose /\ flags.dry_run /\ flags.quick_start /\ flags.no_skew
    /\ ~cfg_exists /\ cli.count # None /\ cli.color # None
    /\ Ended /\ exit_code = Some(0)

\* C14: an interrupt while the engine runs, in either mode, ends the run in
\* the engine with status 0 and the pool not open, and from the interrupt on
\* no job is handed to the renderer, no result is counted and the completion
\* report is not reached.
C14_InterruptStopsCleanly ==
    /\ [](interrupted =>
            /\ Ended /\ exit_code = Some(0)
            /\ pc \in {"sequential", "pooled"}
            /\ pool # "open")
    /\ [][interrupted' =>
            /\ rendered' = rendered /\ progress' = progress
            /\ seq_i' = seq_i /\ next_task' = next_task
            /\ pc' # "summary"]_vars

\* the pool was interrupted with a job in a worker, a job not yet handed
\* out and a result not yet collected
C14_Witness ==
    /\ interrupted /\ pc = "pooled" /\ exit_code = Some(0)
    /\ running # {} /\ next_task < NumJobs /\ outq # <<>>
    /\ pool = "terminated"

\* the document has the five sections and no other top-level key
ValidDocument(doc) == DOMAIN doc = Range(SectionOrder)

\* C15: a document that lacks one of the five sections or has an unknown
\* top-level key ends the run in load_config with the failure status:
\* main() never gets to the override step, whatever the overrides target.
C15_InvalidDocumentIsFatal ==
    (cfg_exists /\ ~flags.diagnose /\ ~ValidDocument(base)) =>
        /\ ~Past("load_config")
        /\ Ended => exit_code = Some(1)

\* the run uses the random strategy with symbols requested or with no
\* character class enabled
MustNameByIndex ==
    /\ Upper[base.TEXT_SETTINGS.CORPUS_TYPE] = "RANDOM"
    /\ \/ base.TEXT_SETTINGS.INCLUDE_SYMBOLS
       \/ /\ ~base.TEXT_SETTINGS.INCLUDE_LETTERS
          /\ ~base.TEXT_SETTINGS.INCLUDE_NUMBERS

RenderedJobs == {i \in DOMAIN rendered : rendered[i] >= 1}

\* C17: for the same jobs and the same renderer outcomes the pooled mode
\* yields what the sequential mode yields, also when a job fails: when an
\* uninterrupted run has ended, in either mode, the jobs rendered are those
\* the sequential loop renders, each once, and the results counted are the
\* successes among them.
C17_PooledEqualsSequential ==
    (Ended /\ ~interrupted /\ (InSequential \/ InPooled)) =>
        LET seq == SequentialRun(0, NumJobs, failing)
        IN  /\ RenderedJobs = seq
            /\ \A i \in DOMAIN rendered : rendered[i] <= 1
            /\ progress = Cardinality(seq \ failing)

\* C18: every uninterrupted run that entered the engine ends in the
\* completion report, and there the jobs attempted are all the jobs built:
\* those counted as succeeded plus those whose renderer call failed.
C18_SummaryAccountsForEveryJob ==
    (Ended /\ ~interrupted /\ (InSequential \/ InPooled)) =>
        /\ pc = "summary"
        /\ RenderedJobs = DOMAIN rendered
        /\ progress + Cardinality(failing \cap DOMAIN rendered) = NumJobs

\* C19: with the quick-start preset and no item count on the command line
\* the preset step succeeds, and the resolved namespace has item count 100
\* and worker count 4, or min(4, w) when the worker count w was given.
C19_QuickStartDefaults ==
    (flags.quick_start /\ ~flags.diagnose /\ cfg_exists /\ cli.count = None) =>
        /\ ~(Ended /\ pc = "quick_start")
        /\ Past("flatten") =>
              /\ args.count = Some(100)
              /\ args.num_workers =
                    Some(IF cli.num_workers = None THEN 4
                         ELSE Min(4, cli.num_workers[1]))

\* the effect each stage applies when its gate opens
StageEffect ==
    [gaussian_blur |-> "blur", brightness |-> "brightness",
     contrast |-> "contrast", add_gaussian_noise |-> "noise"]

\* C20: a call of apply_augmentations runs blur, brightness, contrast and
\* noise in that order, each once: the k-th stage call is the k-th of the
\* four, its input is the output of the call before it (the argument of the
\* call for the first), its output is its input or its input with its own
\* effect, by its own draw; the loop advances one stage at a time and the
\* call returns the output of the fourth.
C20_StagesInFixedOrder ==
    /\ [](/\ Len(aug_trace) = aug_i - 1
          /\ Len(aug_trace) <= 4
          /\ \A k \in 1..Len(aug_trace) :
                /\ aug_trace[k].stage =
                      <<"gaussian_blur", "brightness", "contrast",
                        "add_gaussian_noise">>[k]
                /\ aug_trace[k].input =
                      (IF k = 1 THEN Image(aug_img.source)
                       ELSE aug_trace[k - 1].output)
                /\ aug_trace[k].output \in
                      {aug_trace[k].input,
                       Effect(aug_trace[k].input, StageEffect[aug_trace[k].stage])}
          /\ aug_pc = "returned" =>
                Len(aug_trace) = 4 /\ aug_img = aug_trace[4].output)
    /\ [][\/ aug_trace' = aug_trace
          \/ /\ Len(aug_trace') = Len(aug_trace) + 1
             /\ SubSeq(aug_trace', 1, Len(aug_trace)) = aug_trace]_vars

\* a call has returned in which the gates of blur and contrast opened and
\* those of brightness and noise did not, contrast and noise on the same draw
C20_Witness ==
    /\ aug_pc = "returned"
    /\ aug_img.effects = <<"blur", "contrast">>
    /\ aug_trace[3].draw = 27 /\ aug_trace[4].draw = 27

\* C21: a stage whose gate draw fails returns the image it was given; so a
\* stage called with probability 0 always does, any number of stage calls
\* with probability 0 leave the picture as it was, and a stage called with
\* probability 1 always applies its own effect.
C21_GateFailureIsIdentity ==
    /\ \A k \in 1..Len(aug_trace) :
          LET c == aug_trace[k]
          IN  /\ c.draw >= c.p => c.output = c.input
              /\ c.p = 0 => c.output = c.input
              /\ c.p = 100 =>
                    c.output = Effect(c.input, StageEffect[c.stage])
    /\ (aug_pc = "idle" /\ \A k \in 1..Len(aug_trace) : aug_trace[k].p = 0) =>
          aug_img = Picture

\* the most stage calls the bound allows, all with probability 0, one of
\* them on the smallest draw
C21_Witness ==
    /\ aug_pc = "idle" /\ Len(aug_trace) = MaxCalls
    /\ \A k \in 1..Len(aug_trace) : aug_trace[k].p = 0
    /\ \E k \in 1..Len(aug_trace) : aug_trace[k].draw = 0
    /\ aug_img = Picture

\* no renderer call of the run raises
NoFailure == failing \cap DOMAIN rendered = {}

\* C22: in a run without a failing job and without an interrupt no job is
\* ever handed to the renderer twice, in the for loop and in the pool under
\* every interleaving of the workers, and when the completion report is
\* reached every job has been handed to it once.
C22_EachJobRenderedOnce ==
    (NoFailure /\ ~interrupted) =>
        /\ \A i \in DOMAIN rendered : rendered[i] <= 1
        /\ pc = "summary" =>
              /\ \A i \in DOMAIN rendered : rendered[i] = 1
              /\ DOMAIN rendered = 0..(NumJobs - 1)

\* a pool of two workers has finished the most jobs the bound allows, with
\* no failure, and the report is reached
C22_Witness ==
    /\ pc = "summary" /\ Ended /\ InPooled /\ Workers = 2
    /\ NumJobs = MaxCount /\ failing = {} /\ ~interrupted
    /\ \A i \in 0..(NumJobs - 1) : rendered[i] = 1

\* C23: the worker count alone selects the mode.  With at most 1 worker
\* (0 and negative counts included) no pool is ever created, nothing is
\* handed to a worker, and the renderer is called for the jobs in ascending
\* index order, the next call always for the smallest job not yet rendered;
\* with more than 1 worker the for loop never runs, a pool is created and
\* never more jobs are in its workers than the worker count.
C23_ModeByWorkerCount ==
    /\ [](Past("engine") =>
            IF Workers <= 1
            THEN /\ pc \in {"sequential", "summary"}
                 /\ pool = "none" /\ running = {} /\ next_task = 0 /\ outq = <<>>
                 /\ \A i \in RenderedJobs : \A j \in 0..i : j \in RenderedJobs
            ELSE /\ pc \in {"pooled", "summary"}
                 /\ pool # "none" /\ seq_i = 0
                 /\ Cardinality(running) <= Workers)
    /\ [][\A i \in DOMAIN rendered :
            (Past("engine") /\ Workers <= 1 /\ rendered'[i] # rendered[i]) =>
                /\ rendered[i] = 0 /\ rendered'[i] = 1
                /\ \A j \in DOMAIN rendered :
                      (j < i => rendered[j] = 1) /\ (j > i => rendered[j] = 0)]_vars

\* a run with a negative worker count has rendered the most jobs the bound
\* allows in the for loop and reached the report
C23_Witness ==
    /\ Past("engine") /\ Workers < 0
    /\ pc = "summary" /\ Ended /\ pool = "none"
    /\ NumJobs = MaxCount /\ seq_i = MaxCount
    /\ \A i \in DOMAIN rendered : rendered[i] = 1

\* C24: the progress count is the number of jobs completed, failed ones
\* included: in the for loop it equals the number of renderer calls made,
\* in the pool it equals the number of jobs finished less the results still
\* waiting to be collected, and when an uninterrupted run has ended it
\* equals the number of jobs.
C24_ProgressCountsEveryJob ==
    (Past("engine") /\ ~interrupted) =>
        /\ InSequential => progress = Cardinality(RenderedJobs)
        /\ InPooled =>
              progress + Len(outq) = Cardinality(RenderedJobs \ running)
        /\ Ended => progress = NumJobs

\* the canonical text of a colour: wrapped in parentheses unless it
\* already starts with one
Canonical(text) ==
    IF text # <<>> /\ Head(text) = "(" THEN text ELSE <<"(">> \o text \o <<")">>

\* C25: a colour given on the command line is the resolved colour option in
\* its canonical text: wrapped in parentheses when it was given without
\* them, unchanged when it was given with them.
C25_ColorStoredCanonical ==
    (Past("flatten") /\ cli.color # None) =>
        args.color = Some(Canonical(cli.color[1]))

\* the options the sampler, the job builder and the engine read
Consumed ==
    {"corpus_type", "corpus", "length", "random", "count", "language",
     "fonts", "output_dir", "size", "extension", "skew_angle", "width",
     "height", "color", "margins", "orientation", "space_width", "fit",
     "stroke_width", "stroke_fill", "num_workers"}

\* C26: once a document with the five sections is resolved, every option
\* the sampler, the job builder and the engine read has a value: none is
\* left None.
C26_EveryOptionDefined ==
    (Past("flatten") /\ ValidDocument(base)) =>
        \A n \in Consumed : args[n] # None

\* what a job carries besides its index and its text
JobStyle(job) == [job EXCEPT !.index = 0, !.text = <<>>]

\* C27: for n sampled strings n jobs are built; job i (from 0) carries
\* index i and the i-th string, so the indexes are distinct and cover
\* 0..n-1; the jobs of a run agree on the fonts, the output directory and
\* every render-style value.
C27_JobPerString ==
    Past("build") =>
        /\ NumJobs = Len(strings)
        /\ \A p \in 1..NumJobs :
              /\ image_params[p].index = p - 1
              /\ image_params[p].text = strings[p]
              /\ image_params[p].fonts = font_paths
              /\ image_params[p].output_dir = args.output_dir[1]
        /\ {image_params[p].index : p \in 1..NumJobs} = 0..(Len(strings) - 1)
        /\ \A p, q \in 1..NumJobs :
              JobStyle(image_params[p]) = JobStyle(image_params[q])

\* the most jobs the bound allows, built from strings that are not all the
\* same
C27_Witness ==
    /\ Past("build") /\ NumJobs = MaxCount
    /\ image_params[1].text # image_params[2].text
    /\ image_params[MaxCount].index = MaxCount - 1

\* the spellings of the two tags that name a strategy of their own
CorpusTags == {"CORPUS", "corpus", "Corpus"}
RandomTags == {"RANDOM", "random", "rAnDoM"}

\* C28: the strategy tag is read without regard to case for CORPUS and
\* RANDOM, and any other tag, a misspelt one included, runs the dictionary
\* cycle: it is not rejected, and the strings sampled are those of the
\* strategy the tag selects.
C28_TagSelectsStrategy ==
    LET tag == base.TEXT_SETTINGS.CORPUS_TYPE
    IN  /\ (Ended /\ pc = "sample") =>
              /\ tag \notin CorpusTags
              /\ tag \in RandomTags \/ corpus_list = <<>>
        /\ Past("sample") =>
              strings =
                IF tag \in CorpusTags THEN corpus_list
                ELSE IF tag \in RandomTags
                THEN [i \in 1..args.count[1] |-> RandomText]
                ELSE create_strings_from_dict(args.length[1], args.count[1],
                                              corpus_list)

\* a misspelt tag has sampled the most strings the bound allows by cycling
\* through a corpus of two lines
C28_Witness ==
    /\ Past("sample") /\ base.TEXT_SETTINGS.CORPUS_TYPE = "dcit"
    /\ Len(corpus_list) = 2 /\ Len(strings) = MaxCount
    /\ corpus_list[1] # corpus_list[2]
    /\ strings[1] = corpus_list[1] /\ strings[2] = corpus_list[2]

\* the inputs hold a startup error: no document, an override that targets
\* a section the document lacks, no corpus file, no font to load, or a
\* colour that is no triple of numbers
StartupError ==
    \/ ~cfg_exists
    \/ \E n \in OverrideKeys :
          cli[n] # None /\ override_mapping[n][1] \notin DOMAIN base
    \/ fs_corpus[base.TEXT_SETTINGS.CORPUS] = None
    \/ fs_fonts[base.FILE_SETTINGS.FONTS].kind = "missing"
    \/ /\ fs_fonts[base.FILE_SETTINGS.FONTS].kind = "dir"
       /\ \A i \in 1..Len(fs_fonts[base.FILE_SETTINGS.FONTS].entries) :
             ~fs_fonts[base.FILE_SETTINGS.FONTS].entries[i].file
    \/ \E i \in 1..Len(base.TEXT_SETTINGS.COLOR) :
          base.TEXT_SETTINGS.COLOR[i] \notin {"0", "1", "2", "3", "4", "5", "6",
                                             "7", "8", "9", ",", "(", ")"}

\* C29: with a startup error in the inputs the run never gets to create the
\* output directory or to build a job, and it ends with a status other than
\* 0.
C29_StartupErrorLeavesNoTrace ==
    StartupError =>
        /\ ~Past("color")
        /\ ~mkdir_done /\ image_params = <<>> /\ rendered = <<>>
        /\ pool = "none" /\ progress = 0
        /\ Ended => (exit_code # Some(0))

\* a run has ended on a malformed colour, the last of the startup errors,
\* after the corpus and the font were loaded and the strings sampled
C29_Witness ==
    /\ StartupError /\ Ended /\ pc = "color" /\ exit_code = Some(1)
    /\ corpus_list # <<>> /\ font_paths # <<>> /\ strings # <<>>
    /\ ~mkdir_done

\* the calls of setup_logger made so far for the logger named n
CallsOf(n) == {k \in 1..Len(log_calls) : log_calls[k].name = n}

\* C30: after any sequence of setup_logger calls a logger that was named
\* in a call has exactly one handler, and every call after the first for a
\* name returns the logger as the first call left it: same level, same
\* handler and format.
C30_OneHandlerPerLogger ==
    \A n \in LoggerNames :
        /\ Len(loggers[n].handlers) = (IF CallsOf(n) = {} THEN 0 ELSE 1)
        /\ \A k \in CallsOf(n) :
              LET first == CHOOSE j \in CallsOf(n) : \A i \in CallsOf(n) : j <= i
              IN  /\ log_calls[k].returned = log_calls[first].returned
                  /\ k # first => log_calls[k].returned = log_calls[k].before
                  /\ log_calls[first].returned.level = log_calls[first].level

\* the most calls the bound allows, all for one name, with different
\* levels and formats: the logger is as the first call configured it
C30_Witness ==
    /\ Len(log_calls) = MaxLogCalls
    /\ \A k \in 1..Len(log_calls) : log_calls[k].name = "data_gen"
    /\ log_calls[1].level = Debug /\ log_calls[1].fmt = None
    /\ log_calls[2].level = Info /\ log_calls[2].fmt = Some("%(message)s")
    /\ loggers["data_gen"] = [level |-> Debug, handlers |-> <<DefaultFormat>>]

====
